---- MODULE Spec2Model ----
(***************************************************************************)
(* A model of kalgynirae/musictheory: the Pitch / Interval / MajorScale    *)
(* algebra of musictheory.py and the chord progression generator of        *)
(* composer.py.  Names are sequences of one-character strings, so that     *)
(* parsing and formatting are modelled by what they do to the characters.  *)
(* The classes are modelled by their methods as written; __slots__ (which   *)
(* names 'octave' beside the property of that name) is left out.           *)
(* Spec is one call of the Pitch / Interval / MajorScale API, SpecComposer *)
(* one call of basic_chord_progression.  SpecWalk is the same call seen    *)
(* through what its loop reads of its lists: the last chord and the length *)
(* of the phrase and the number of phrases appended, so that the walk has  *)
(* no cap, together with what the steps of the phrase found.               *)
(***************************************************************************)
EXTENDS Integers, Sequences, FiniteSets, TLC

VARIABLES call, ret, phrases, n, phrase, progression, pc, walk

vars == <<call, ret, phrases, n, phrase, progression, pc, walk>>
algebraVars == <<call, ret>>
composerVars == <<phrases, n, phrase, progression, pc, walk>>

\* ------------------------------------------------------------------ bounds
\* Pitches given to the operations have octave 0..MaxOctave.
MaxOctave == 1
\* Pitches given to the operations have transposition -MaxTransposition..MaxTransposition.
MaxTransposition == 2
\* Interval names given to the parser have a generic number 1..MaxGenericName.
MaxGenericName == 9
\* Names given to the parsers repeat an accidental or quality glyph at most this often.
MaxRun == 3
\* One call of basic_chord_progression is followed until its phrases, the
\* one being built included, hold this many chords.
MaxChords == 9

\* ------------------------------------------------------- characters, numbers
Digits == <<"0", "1", "2", "3", "4", "5", "6", "7", "8", "9">>
UpperCase == <<"A", "B", "C", "D", "E", "F", "G", "H", "I", "J", "K", "L", "M",
               "N", "O", "P", "Q", "R", "S", "T", "U", "V", "W", "X", "Y", "Z">>
LowerCase == <<"a", "b", "c", "d", "e", "f", "g", "h", "i", "j", "k", "l", "m",
               "n", "o", "p", "q", "r", "s", "t", "u", "v", "w", "x", "y", "z">>

IsDigit(c) == \E k \in DOMAIN Digits : Digits[k] = c
DigitVal(c) == (CHOOSE k \in DOMAIN Digits : Digits[k] = c) - 1

\* str.lower(), one character
Lower(c) ==
    IF \E k \in DOMAIN UpperCase : UpperCase[k] = c
    THEN LowerCase[CHOOSE k \in DOMAIN UpperCase : UpperCase[k] = c]
    ELSE c
LowerSeq(s) == [k \in DOMAIN s |-> Lower(s[k])]

\* str(n) of a natural number
RECURSIVE StrOfNat(_)
StrOfNat(k) ==
    IF k < 10 THEN <<Digits[k + 1]>>
    ELSE StrOfNat(k \div 10) \o <<Digits[(k % 10) + 1]>>
\* str(n) of an integer
StrOfInt(k) == IF k < 0 THEN <<"-">> \o StrOfNat(-k) ELSE StrOfNat(k)

\* int(s) of a non-empty run of digits
RECURSIVE IntOfStr(_)
IntOfStr(s) ==
    IF Len(s) = 0 THEN 0
    ELSE 10 * IntOfStr(SubSeq(s, 1, Len(s) - 1)) + DigitVal(s[Len(s)])

\* c * k for a string c: the empty string when k <= 0
RECURSIVE Repeat(_, _)
Repeat(u, k) == IF k <= 0 THEN <<>> ELSE u \o Repeat(u, k - 1)

\* s is unit repeated zero or more times: the regular expression (?:unit)*
IsRepeatOf(s, unit) ==
    /\ Len(s) % Len(unit) = 0
    /\ \A k \in DOMAIN s : s[k] = unit[((k - 1) % Len(unit)) + 1]

\* str.count(pat): the non-overlapping occurrences of pat in s, left to right
RECURSIVE Count(_, _)
Count(s, pat) ==
    IF Len(s) < Len(pat) THEN 0
    ELSE IF SubSeq(s, 1, Len(pat)) = pat
         THEN 1 + Count(SubSeq(s, Len(pat) + 1, Len(s)), pat)
         ELSE Count(SubSeq(s, 2, Len(s)), pat)

Tail2(s, k) == SubSeq(s, k + 1, Len(s))

\* what an operation hands back: a value, or a raised ValueError
Returned(v) == [raised |-> FALSE, val |-> v]
Raised == [raised |-> TRUE, val |-> "ValueError"]

\* ==================================================================== Pitch
FLAT_CHAR == "b"
SHARP_CHAR == "#"
PitchClasses == <<"c", "d", "e", "f", "g", "a", "b">>
NaturalSemitone ==
    ("c" :> 0) @@ ("d" :> 2) @@ ("e" :> 4) @@ ("f" :> 5) @@ ("g" :> 7) @@
    ("a" :> 9) @@ ("b" :> 11)

Pitch(b, t) == [base_pitch_id |-> b, transposition |-> t]

octave(p) == p.base_pitch_id \div 7
pitch_class(p) == PitchClasses[(p.base_pitch_id % 7) + 1]
midi(p) == (octave(p) + 1) * 12 + NaturalSemitone[pitch_class(p)] + p.transposition

\* Pitch.name with FLAT_CHAR * self.transposition: no flats are written
PitchNameFlatsNotNegated(p) ==
    LET accidentals == IF p.transposition > 0
                       THEN Repeat(<<SHARP_CHAR>>, p.transposition)
                       ELSE Repeat(<<FLAT_CHAR>>, p.transposition)
    IN  <<pitch_class(p)>> \o accidentals \o StrOfInt(octave(p))

\* Pitch.name
PitchName(p) ==
    LET accidentals == IF p.transposition > 0
                       THEN Repeat(<<SHARP_CHAR>>, p.transposition)
                       ELSE Repeat(<<FLAT_CHAR>>, (-1) * p.transposition)
    IN  <<pitch_class(p)>> \o accidentals \o StrOfInt(octave(p))

\* Pitch.equals
equals(self, other, check_octave) ==
    /\ pitch_class(self) = pitch_class(other)
    /\ self.transposition = other.transposition
    /\ (octave(self) = octave(other) \/ ~check_octave)

PitchEq(self, other) == equals(self, other, TRUE)
PitchNe(self, other) == midi(self) # midi(other)
PitchLt(self, other) == midi(self) < midi(other)
PitchLe(self, other) == PitchLt(self, other) \/ PitchEq(self, other)
PitchGt(self, other) == ~PitchLe(self, other)
PitchGe(self, other) == ~PitchLt(self, other)

\* Pitch.NAME_REGEX, with re.IGNORECASE
IsBaseToken(s) ==
    \/ LowerSeq(s) = <<"a", "s">>
    \/ LowerSeq(s) = <<"e", "s">>
    \/ Len(s) = 1 /\ \E k \in DOMAIN PitchClasses : PitchClasses[k] = Lower(s[1])
IsAccidentalRun(s) ==
    \/ IsRepeatOf(LowerSeq(s), <<"e", "s">>)
    \/ IsRepeatOf(LowerSeq(s), <<"i", "s">>)
    \/ IsRepeatOf(LowerSeq(s), <<"b">>)
    \/ IsRepeatOf(s, <<"#">>)
IsOctaveDigits(s) == Len(s) > 0 /\ \A k \in DOMAIN s : IsDigit(s[k])

\* the name splits as base (bl characters), accidentals (al characters), octave
PitchSplits(name, bl, al) ==
    /\ bl + al < Len(name)
    /\ IsBaseToken(SubSeq(name, 1, bl))
    /\ IsAccidentalRun(SubSeq(name, bl + 1, bl + al))
    /\ IsOctaveDigits(Tail2(name, bl + al))
PitchBaseLen(name) ==
    \* the alternation tries "as" and "es" before a single letter
    IF \E al \in 0..Len(name) : PitchSplits(name, 2, al) THEN 2
    ELSE IF \E al \in 0..Len(name) : PitchSplits(name, 1, al) THEN 1
    ELSE 0

\* Pitch.parse_pitch_name
parse_pitch_name(name) ==
    LET bl == PitchBaseLen(name) IN
    IF bl = 0 THEN Raised
    ELSE
      LET al == CHOOSE a \in 0..Len(name) : PitchSplits(name, bl, a)
          accidentals == LowerSeq(SubSeq(name, bl + 1, bl + al))
          flats0 == Count(accidentals, <<"e", "s">>) + Count(accidentals, <<"b">>)
          sharps == Count(accidentals, <<"i", "s">>) + Count(accidentals, <<"#">>)
          oct == IntOfStr(Tail2(name, bl + al))
          base0 == LowerSeq(SubSeq(name, 1, bl))
          special == base0 = <<"a", "s">> \/ base0 = <<"e", "s">>
          base_pitch == IF special THEN SubSeq(base0, 1, Len(base0) - 1) ELSE base0
          flats == IF special THEN flats0 + 1 ELSE flats0
          d == CHOOSE k \in DOMAIN PitchClasses : PitchClasses[k] = base_pitch[1]
      IN  Returned(Pitch(oct * 7 + (d - 1), sharps - flats))

\* ================================================================= Interval
ASCENDING_CHAR == "+"
DESCENDING_CHAR == "-"
Size == <<0, 2, 4, 5, 7, 9, 11>>

Interval(g, t, d) == [generic |-> g, transposition |-> t, descending |-> d]

\* Interval.is_perfect_interval
is_perfect_interval(generic) == (generic % 7) \in {0, 3, 4}

\* Interval.__init__ with the pair ordered by letter, not by height
IntervalFromPitchesBySpelling(from_pitch, to_pitch) ==
    LET swap == from_pitch.base_pitch_id > to_pitch.base_pitch_id
        lo == IF swap THEN to_pitch ELSE from_pitch
        hi == IF swap THEN from_pitch ELSE to_pitch
        generic == hi.base_pitch_id - lo.base_pitch_id
        actual_semitones == midi(hi) - midi(lo)
        simple_generic == generic % 7
        octaves == generic \div 7
    IN  Interval(generic,
                 actual_semitones - (Size[simple_generic + 1] + 12 * octaves),
                 swap)

\* Interval.__init__(pitches=(from_pitch, to_pitch))
IntervalFromPitches(from_pitch, to_pitch) ==
    LET swap == PitchGt(from_pitch, to_pitch)
        lo == IF swap THEN to_pitch ELSE from_pitch
        hi == IF swap THEN from_pitch ELSE to_pitch
        generic == hi.base_pitch_id - lo.base_pitch_id
        actual_semitones == midi(hi) - midi(lo)
        simple_generic == generic % 7
        octaves == generic \div 7
    IN  Interval(generic,
                 actual_semitones - (Size[simple_generic + 1] + 12 * octaves),
                 swap)

\* Interval.steps
steps(i) == Size[(i.generic % 7) + 1] + (i.generic \div 7) * 12

\* Interval.name
IntervalName(i) ==
    LET t == i.transposition
        quality ==
          IF is_perfect_interval(i.generic)
          THEN IF t = -1 THEN <<"d">>
               ELSE IF t = 0 THEN <<"P">>
               ELSE IF t = 1 THEN <<"A">>
               ELSE IF t < 0 THEN Repeat(<<"d">>, (-1) * t)
               ELSE Repeat(<<"A">>, t)
          ELSE IF t = -2 THEN <<"d">>
               ELSE IF t = -1 THEN <<"m">>
               ELSE IF t = 0 THEN <<"M">>
               ELSE IF t = 1 THEN <<"A">>
               ELSE IF t < 0 THEN Repeat(<<"d">>, (-1) * t - 1)
               ELSE Repeat(<<"A">>, t)
        direction == IF i.descending THEN DESCENDING_CHAR ELSE ASCENDING_CHAR
    IN  <<direction>> \o quality \o StrOfInt(i.generic + 1)

\* Interval.quality_to_transposition
QualityTable ==
    (<<"d", "d">> :> -3) @@ (<<"d">> :> -2) @@ (<<"m">> :> -1) @@ (<<"M">> :> 0) @@
    (<<"A">> :> 1) @@ (<<"A", "A">> :> 2) @@
    (<<"d", "d", "p">> :> -2) @@ (<<"d", "p">> :> -1) @@ (<<"P", "p">> :> 0) @@
    (<<"A", "p">> :> 1) @@ (<<"A", "A", "p">> :> 2)
\* quality_to_transposition falling back to the quality without the 'p'
\* suffix when the suffixed key is missing
quality_to_transposition_fallback(quality, is_perfect) ==
    LET quality_modified == IF is_perfect THEN quality \o <<"p">> ELSE quality
    IN  IF quality_modified \in DOMAIN QualityTable
        THEN Returned(QualityTable[quality_modified])
        ELSE IF quality \in DOMAIN QualityTable
             THEN Returned(QualityTable[quality])
             ELSE Raised

quality_to_transposition(quality, is_perfect) ==
    LET quality_modified == IF is_perfect THEN quality \o <<"p">> ELSE quality
    IN  IF quality_modified \in DOMAIN QualityTable
        THEN Returned(QualityTable[quality_modified])
        ELSE Raised

\* Interval.NAME_REGEX, matched at the start of the name (re.match, no $)
IsQualityToken(s) ==
    \/ IsRepeatOf(s, <<"d">>)
    \/ IsRepeatOf(s, <<"A">>)
    \/ Len(s) = 1 /\ s[1] \in {"P", "M", "m"}
DirectionLen(name) == IF Len(name) > 0 /\ name[1] \in {"+", "-"} THEN 1 ELSE 0
\* the name splits as direction (dl), quality (ql), then a digit 1..9
IntervalSplits(name, dl, ql) ==
    /\ dl + ql < Len(name)
    /\ IsQualityToken(SubSeq(name, dl + 1, dl + ql))
    /\ IsDigit(name[dl + ql + 1]) /\ name[dl + ql + 1] # "0"
\* [1-9][0-9]* is greedy: the digits from position k on
RECURSIVE DigitRun(_, _)
DigitRun(s, k) ==
    IF k > Len(s) \/ ~IsDigit(s[k]) THEN <<>> ELSE <<s[k]>> \o DigitRun(s, k + 1)

\* Interval.parse_interval_name
parse_interval_name(name) ==
    LET dl == DirectionLen(name) IN
    IF ~\E ql \in 0..Len(name) : IntervalSplits(name, dl, ql) THEN Raised
    ELSE
      LET ql == CHOOSE q \in 0..Len(name) : IntervalSplits(name, dl, q)
          generic == IntOfStr(DigitRun(name, dl + ql + 1)) - 1
          is_perfect == is_perfect_interval(generic)
          t == quality_to_transposition(SubSeq(name, dl + 1, dl + ql), is_perfect)
          descending == (dl = 1 /\ name[1] = "-")
      IN  IF t.raised THEN Raised
          ELSE Returned(Interval(generic, t.val, descending))

\* Interval.__copy__ and Interval.__neg__: the copy goes through the name
IntervalNeg(i) ==
    LET c == parse_interval_name(IntervalName(i))
    IN  IF c.raised THEN Raised
        ELSE Returned(Interval(c.val.generic, c.val.transposition, ~c.val.descending))

\* ====================================================== Pitch and Interval
\* Pitch.__add__
PitchAdd(self, other) ==
    LET new_base_pitch_id == IF other.descending
                             THEN self.base_pitch_id - other.generic
                             ELSE self.base_pitch_id + other.generic
        new_pitch == Pitch(new_base_pitch_id, 0)
        i == IntervalFromPitches(self, new_pitch)
        new_transposition == IF other.descending
                             THEN other.transposition + i.transposition
                             ELSE other.transposition - i.transposition
    IN  Pitch(new_base_pitch_id, new_transposition)

\* Pitch.__sub__ with a Pitch: Interval(pitches=(other, self))
PitchSubPitch(self, other) == IntervalFromPitches(other, self)

\* Pitch.__sub__ with an Interval: self.__add__(-other)
PitchSubInterval(self, other) ==
    LET neg == IntervalNeg(other)
    IN  IF neg.raised THEN Raised ELSE Returned(PitchAdd(self, neg.val))

\* =============================================================== MajorScale
MajorScaleNames ==
    << <<"P", "1">>, <<"M", "2">>, <<"M", "3">>, <<"P", "4">>, <<"P", "5">>,
       <<"M", "6">>, <<"M", "7">> >>
MajorScaleIntervals ==
    [k \in DOMAIN MajorScaleNames |-> parse_interval_name(MajorScaleNames[k]).val]
\* MajorScale.__init__
MajorScale(start_pitch) ==
    [k \in DOMAIN MajorScaleIntervals |-> PitchAdd(start_pitch, MajorScaleIntervals[k])]
\* MajorScale.is_diatonic
is_diatonic(scale, pitch) == \E k \in DOMAIN scale : equals(pitch, scale[k], FALSE)

\* ================================================================ composer
\* a transition entry: a degree, or a list / tied pair of entries
Deg(d) == [kind |-> "int", val |-> d]
Entries(s) == [kind |-> "seq", val |-> s]
Tied(a, b) == Entries(<<Deg(a), Deg(b)>>)

\* basic_chord_progression: transitions
transitions ==
    (0 :> Entries(<<Deg(1), Deg(5)>>)) @@
    (1 :> Entries(<<Deg(3), Deg(6), Tied(2, 4), Tied(5, 7)>>)) @@
    (2 :> Entries(<<Deg(4), Tied(5, 7), Deg(1)>>)) @@
    (3 :> Entries(<<Deg(6), Tied(2, 4), Tied(5, 7), Deg(1)>>)) @@
    (4 :> Entries(<<Deg(2), Tied(5, 7), Deg(1)>>)) @@
    (5 :> Entries(<<Deg(7), Deg(6), Deg(1)>>)) @@
    (6 :> Entries(<<Tied(2, 4), Tied(5, 7), Deg(1)>>)) @@
    (7 :> Entries(<<Deg(5), Deg(1)>>))

\* choose: random.choice is applied until the choice is no sequence; the set
\* of the values it can return
RECURSIVE choose(_)
choose(choices) ==
    IF choices.kind = "int" THEN {choices.val}
    ELSE UNION {choose(choices.val[k]) : k \in DOMAIN choices.val}

\* random.randrange(3, 10)
RandrangeStart == 3
RandrangeStop == 10
randrange == RandrangeStart..(RandrangeStop - 1)

HalfCadenceChords == {6, 2, 4, 1}
\* the authentic cadence also taken after degree 5
AuthenticCadenceChordsWithFive == {2, 4, 6, 1, 7, 5}
AuthenticCadenceChords == {2, 4, 6, 1, 7}

\* def basic_chord_progression(key, phrases=2)
DefaultPhrases == 2

\* the chords of the phrases of a progression
RECURSIVE Chords(_)
Chords(prog) ==
    IF Len(prog) = 0 THEN 0
    ELSE Len(prog[Len(prog)]) + Chords(SubSeq(prog, 1, Len(prog) - 1))

\* a phrase started from the entry of degree 1
StartChoicesOfDegreeOne == choose(transitions[1])

\* phrase = [choose(transitions[0])]
StartChoices == choose(transitions[0])

\* the while body with the half cadence taken for every phrase
WhileBodyHalfCadenceOnly(ph, new_chord, r, idx) ==
    IF Len(ph) > r /\ new_chord \in HalfCadenceChords
    THEN [phrase |-> Append(ph, 5), break |-> TRUE]
    ELSE [phrase |-> ph, break |-> FALSE]

\* the while body with the smallest threshold in place of the draw
WhileBodyFixedThreshold(ph, new_chord, r, idx) ==
    IF Len(ph) > RandrangeStart
    THEN IF idx % 2 = 0
         THEN IF new_chord \in HalfCadenceChords
              THEN [phrase |-> Append(ph, 5), break |-> TRUE]
              ELSE [phrase |-> ph, break |-> FALSE]
         ELSE IF new_chord \in AuthenticCadenceChords
              THEN [phrase |-> Append(Append(ph, 5), 1), break |-> TRUE]
              ELSE [phrase |-> ph, break |-> FALSE]
    ELSE [phrase |-> ph, break |-> FALSE]

\* the while body with the break statements left out
WhileBodyNoBreak(ph, new_chord, r, idx) ==
    IF Len(ph) > r
    THEN IF idx % 2 = 0
         THEN IF new_chord \in HalfCadenceChords
              THEN [phrase |-> Append(ph, 5), break |-> FALSE]
              ELSE [phrase |-> ph, break |-> FALSE]
         ELSE IF new_chord \in AuthenticCadenceChords
              THEN [phrase |-> Append(Append(ph, 5), 1), break |-> FALSE]
              ELSE [phrase |-> ph, break |-> FALSE]
    ELSE [phrase |-> ph, break |-> FALSE]

\* the body of the while loop after new_chord is appended and the threshold r
\* drawn: the phrase, and whether the loop breaks
WhileBody(ph, new_chord, r, idx) ==
    IF Len(ph) > r
    THEN IF idx % 2 = 0
         THEN IF new_chord \in HalfCadenceChords
              THEN [phrase |-> Append(ph, 5), break |-> TRUE]
              ELSE [phrase |-> ph, break |-> FALSE]
         ELSE IF new_chord \in AuthenticCadenceChords
              THEN [phrase |-> Append(Append(ph, 5), 1), break |-> TRUE]
              ELSE [phrase |-> ph, break |-> FALSE]
    ELSE [phrase |-> ph, break |-> FALSE]

\* ============================================================ the inputs
Pitches ==
    {Pitch(b, t) : b \in 0..(7 * (MaxOctave + 1) - 1),
                   t \in (-MaxTransposition)..MaxTransposition}

PitchNameInputs ==
    LET bases == {<<PitchClasses[k]>> : k \in DOMAIN PitchClasses} \cup
                 {<<"a", "s">>, <<"e", "s">>, <<"A">>, <<"E", "S">>, <<"h">>}
        units == {<<"e", "s">>, <<"i", "s">>, <<"b">>, <<"#">>, <<"E", "s">>, <<"B">>}
        runs == {Repeat(u, k) : u \in units, k \in 0..MaxRun} \cup
                {<<"e", "s", "i", "s">>, <<"b", "#">>, <<"s">>}
        octaves == {StrOfNat(o) : o \in 0..MaxOctave} \cup
                   {<<"0", "4">>, <<"1", "0">>, <<>>}
    IN  {b \o a \o o : b \in bases, a \in runs, o \in octaves}

IntervalNameInputs ==
    LET directions == {<<>>, <<"+">>, <<"-">>}
        qualities == {Repeat(<<"d">>, k) : k \in 0..MaxRun} \cup
                     {Repeat(<<"A">>, k) : k \in 0..MaxRun} \cup
                     {<<"P">>, <<"M">>, <<"m">>, <<"d", "A">>, <<"p">>}
        generics == {StrOfNat(g) : g \in 0..MaxGenericName}
        rests == {<<>>, <<"x">>}
    IN  {d \o q \o g \o x : d \in directions, q \in qualities,
                            g \in generics, x \in rests}

\* the intervals that can be built from a name
NamedIntervals ==
    {parse_interval_name(nm).val : nm \in {x \in IntervalNameInputs :
                                           ~parse_interval_name(x).raised}}

NoPitch == Pitch(0, 0)
NoInterval == Interval(0, 0, FALSE)
Call(op, name, p, q, i) == [op |-> op, name |-> name, p |-> p, q |-> q, i |-> i]

\* what the call handed back: raised, or the value in the field of its type
NoFlags == [eq |-> FALSE, ne |-> FALSE, lt |-> FALSE, le |-> FALSE, gt |-> FALSE, ge |-> FALSE]
NoRet == [raised |-> FALSE, pitch |-> NoPitch, interval |-> NoInterval,
          name |-> <<>>, pitches |-> <<>>, flags |-> NoFlags]
RetRaised == [NoRet EXCEPT !.raised = TRUE]
RetPitch(r) == IF r.raised THEN RetRaised ELSE [NoRet EXCEPT !.pitch = r.val]
RetInterval(r) == IF r.raised THEN RetRaised ELSE [NoRet EXCEPT !.interval = r.val]
RetName(r) == IF r.raised THEN RetRaised ELSE [NoRet EXCEPT !.name = r.val]

\* the call as its loop reads it: last is phrase[-1], len is len(phrase),
\* count is len(progression); over tells whether the last step found
\* len(phrase) above its draw, earlier whether a step before it did
NoWalk == [last |-> 0, len |-> 0, count |-> 0, earlier |-> FALSE, over |-> FALSE]

\* ================================================================== Init
Init ==
    /\ call = Call("none", <<>>, NoPitch, NoPitch, NoInterval)
    /\ ret = NoRet
    /\ phrases = 0
    /\ n = 0
    /\ phrase = <<>>
    /\ progression = <<>>
    /\ pc = "idle"
    /\ walk = NoWalk

\* ============================================ the operations of musictheory
\* One call of the library: the operation and its arguments are recorded in
\* call, what it returns (or that it raised) in ret.
\* Pitch.parse_pitch_name(name)
ParsePitchName ==
    /\ call.op = "none"
    /\ \E name \in PitchNameInputs :
        /\ call' = Call("parse_pitch_name", name, NoPitch, NoPitch, NoInterval)
        /\ ret' = RetPitch(parse_pitch_name(name))
        /\ UNCHANGED composerVars

\* Pitch(name).name
PitchNameOf ==
    /\ call.op = "none"
    /\ \E name \in PitchNameInputs :
        LET parsed == parse_pitch_name(name) IN
        /\ call' = Call("pitch_name", name, NoPitch, NoPitch, NoInterval)
        /\ ret' = RetName(IF parsed.raised THEN Raised ELSE Returned(PitchName(parsed.val)))
        /\ UNCHANGED composerVars

\* p + i
Add ==
    /\ call.op = "none"
    /\ \E p \in Pitches, i \in NamedIntervals :
        /\ call' = Call("add", <<>>, p, NoPitch, i)
        /\ ret' = RetPitch(Returned(PitchAdd(p, i)))
        /\ UNCHANGED composerVars

\* p - q
SubPitch ==
    /\ call.op = "none"
    /\ \E p \in Pitches, q \in Pitches :
        /\ call' = Call("sub_pitch", <<>>, p, q, NoInterval)
        /\ ret' = RetInterval(Returned(PitchSubPitch(p, q)))
        /\ UNCHANGED composerVars

\* p - i
SubInterval ==
    /\ call.op = "none"
    /\ \E p \in Pitches, i \in NamedIntervals :
        /\ call' = Call("sub_interval", <<>>, p, NoPitch, i)
        /\ ret' = RetPitch(PitchSubInterval(p, i))
        /\ UNCHANGED composerVars

\* p == q, p != q, p < q, p <= q, p > q, p >= q
Compare ==
    /\ call.op = "none"
    /\ \E p \in Pitches, q \in Pitches :
        /\ call' = Call("compare", <<>>, p, q, NoInterval)
        /\ ret' = [NoRet EXCEPT !.flags =
                        [eq |-> PitchEq(p, q), ne |-> PitchNe(p, q),
                         lt |-> PitchLt(p, q), le |-> PitchLe(p, q),
                         gt |-> PitchGt(p, q), ge |-> PitchGe(p, q)]]
        /\ UNCHANGED composerVars

\* MajorScale(p).pitches
BuildMajorScale ==
    /\ call.op = "none"
    /\ \E p \in Pitches :
        /\ call' = Call("major_scale", <<>>, p, NoPitch, NoInterval)
        /\ ret' = [NoRet EXCEPT !.pitches = MajorScale(p)]
        /\ UNCHANGED composerVars

\* Interval.parse_interval_name(name)
ParseIntervalName ==
    /\ call.op = "none"
    /\ \E name \in IntervalNameInputs :
        /\ call' = Call("parse_interval_name", name, NoPitch, NoPitch, NoInterval)
        /\ ret' = RetInterval(parse_interval_name(name))
        /\ UNCHANGED composerVars

Next ==
    \/ ParsePitchName
    \/ PitchNameOf
    \/ Add
    \/ SubPitch
    \/ SubInterval
    \/ Compare
    \/ BuildMajorScale
    \/ ParseIntervalName

Spec == Init /\ [][Next]_vars

\* ================================================= basic_chord_progression
\* basic_chord_progression(key, phrases) is called, with up to the default
\* number of phrases
CallProgression ==
    /\ pc = "idle"
    /\ \E ph \in 0..DefaultPhrases : phrases' = ph
    /\ n' = 0
    /\ phrase' = <<>>
    /\ progression' = <<>>
    /\ pc' = "for"
    /\ UNCHANGED <<algebraVars, walk>>

\* for n in range(phrases): phrase = [choose(transitions[0])]
StartPhrase ==
    /\ pc = "for"
    /\ n < phrases
    /\ \E first \in StartChoices : phrase' = <<first>>
    /\ pc' = "while"
    /\ UNCHANGED <<phrases, n, progression>>
    /\ UNCHANGED <<algebraVars, walk>>

\* one pass of the while loop
WhileStep ==
    /\ pc = "while"
    /\ Chords(progression) + Len(phrase) < MaxChords
    /\ \E new_chord \in choose(transitions[phrase[Len(phrase)]]), r \in randrange :
         LET body == WhileBody(Append(phrase, new_chord), new_chord, r, n) IN
         /\ phrase' = body.phrase
         /\ pc' = IF body.break THEN "append" ELSE "while"
    /\ UNCHANGED <<phrases, n, progression>>
    /\ UNCHANGED <<algebraVars, walk>>

\* progression.append(phrase), and on to the next n
AppendPhrase ==
    /\ pc = "append"
    /\ progression' = Append(progression, phrase)
    /\ n' = n + 1
    /\ pc' = "for"
    /\ UNCHANGED <<phrases, phrase>>
    /\ UNCHANGED <<algebraVars, walk>>

\* return progression
ReturnProgression ==
    /\ pc = "for"
    /\ n >= phrases
    /\ pc' = "done"
    /\ UNCHANGED <<phrases, n, phrase, progression>>
    /\ UNCHANGED <<algebraVars, walk>>

NextComposer ==
    \/ CallProgression
    \/ StartPhrase
    \/ WhileStep
    \/ AppendPhrase
    \/ ReturnProgression

SpecComposer == Init /\ [][NextComposer]_vars

\* ===================================== basic_chord_progression, as a walk
\* len(phrase) is only compared with a draw below RandrangeStop, so every
\* length from RandrangeStop on is kept as RandrangeStop
LenKept(k) == IF k > RandrangeStop THEN RandrangeStop ELSE k

\* a phrase of the given length ending with the given chord
PhraseLike(length, chord) == [k \in 1..length |-> chord]

WalkCall ==
    /\ pc = "idle"
    /\ \E ph \in 0..DefaultPhrases : phrases' = ph
    /\ n' = 0
    /\ walk' = NoWalk
    /\ pc' = "for"
    /\ UNCHANGED <<algebraVars, phrase, progression>>

\* for n in range(phrases): phrase = [choose(transitions[0])]
WalkStartPhrase ==
    /\ pc = "for"
    /\ n < phrases
    /\ \E first \in StartChoices :
         walk' = [walk EXCEPT !.last = first, !.len = 1,
                              !.earlier = FALSE, !.over = FALSE]
    /\ pc' = "while"
    /\ UNCHANGED <<algebraVars, phrases, n, phrase, progression>>

\* one pass of the while loop in which choose returns new_chord and
\* randrange returns r
WalkStep(new_chord, r) ==
    /\ pc = "while"
    /\ new_chord \in choose(transitions[walk.last])
    /\ LET ph == PhraseLike(walk.len + 1, new_chord)
           body == WhileBody(ph, new_chord, r, n)
       IN  /\ walk' = [walk EXCEPT !.last = body.phrase[Len(body.phrase)],
                                   !.len = LenKept(Len(body.phrase)),
                                   !.earlier = walk.earlier \/ walk.over,
                                   !.over = Len(ph) > r]
           /\ pc' = IF body.break THEN "append" ELSE "while"
    /\ UNCHANGED <<algebraVars, phrases, n, phrase, progression>>

\* progression.append(phrase), and on to the next n
WalkAppend ==
    /\ pc = "append"
    /\ walk' = [walk EXCEPT !.count = walk.count + 1]
    /\ n' = n + 1
    /\ pc' = "for"
    /\ UNCHANGED <<algebraVars, phrases, phrase, progression>>

\* return progression
WalkReturn ==
    /\ pc = "for"
    /\ n >= phrases
    /\ pc' = "done"
    /\ UNCHANGED <<algebraVars, phrases, n, phrase, progression, walk>>

NextWalk ==
    \/ WalkCall
    \/ WalkStartPhrase
    \/ \E new_chord \in 1..7, r \in randrange : WalkStep(new_chord, r)
    \/ WalkAppend
    \/ WalkReturn

\* the statements of the function are executed, and every chord and every
\* draw that can be chosen again and again is chosen again and again
WalkFairness ==
    /\ WF_vars(WalkCall)
    /\ WF_vars(WalkStartPhrase)
    /\ WF_vars(WalkAppend)
    /\ WF_vars(WalkReturn)
    /\ \A new_chord \in 1..7 : SF_vars(\E r \in randrange : WalkStep(new_chord, r))
    /\ \A r \in randrange : SF_vars(\E new_chord \in 1..7 : WalkStep(new_chord, r))

SpecWalkUnfair == Init /\ [][NextWalk]_vars
SpecWalk == SpecWalkUnfair /\ WalkFairness

\* ============================================================== the claims
\* C1: for every pitch p and every interval i built from a name, the interval
\* (p + i) - p has the generic size and the transposition of i.
C1_AddThenSubtractGivesInterval ==
    call.op = "add" =>
        LET back == PitchSubPitch(ret.pitch, call.p)
        IN  /\ back.generic = call.i.generic
            /\ back.transposition = call.i.transposition

\* C2: the name formatted from a parsed pitch name is accepted by the parser
\* and parses back to the same (base_pitch_id, transposition).
C2_CanonicalNameReparses ==
    (call.op = "pitch_name" /\ ~ret.raised) =>
        LET first == parse_pitch_name(call.name)
            again == parse_pitch_name(ret.name)
        IN  /\ ~again.raised
            /\ again.val.base_pitch_id = first.val.base_pitch_id
            /\ again.val.transposition = first.val.transposition

\* C2's case: the contracted "ases1" is formatted as "abb1"
C2_Witness ==
    /\ call.op = "pitch_name"
    /\ call.name = <<"a", "s", "e", "s", "1">>
    /\ ~ret.raised
    /\ ret.name = <<"a", "b", "b", "1">>

\* C3: for every interval built from an ordered pair of pitches, parsing its
\* name succeeds and yields the same (generic, transposition, descending).
C3_IntervalNameParsesBack ==
    call.op = "sub_pitch" =>
        LET parsed == parse_interval_name(IntervalName(ret.interval))
        IN  /\ ~parsed.raised
            /\ parsed.val = ret.interval

\* C4: the comparisons of two pitches are those of their midi numbers:
\* p < q, p <= q, p > q and p >= q each hold exactly when midi says so.
C4_ComparisonsFollowMidi ==
    call.op = "compare" =>
        /\ ret.flags.lt <=> (midi(call.p) < midi(call.q))
        /\ ret.flags.le <=> (midi(call.p) <= midi(call.q))
        /\ ret.flags.gt <=> (midi(call.p) > midi(call.q))
        /\ ret.flags.ge <=> (midi(call.p) >= midi(call.q))

\* C5: the first pitch of MajorScale(tonic) has the base_pitch_id and the
\* transposition of the tonic.
C5_ScaleStartsOnTonic ==
    call.op = "major_scale" =>
        /\ ret.pitches[1].base_pitch_id = call.p.base_pitch_id
        /\ ret.pitches[1].transposition = call.p.transposition

\* C6: every phrase appended to the progression, hence every phrase returned,
\* has at least 4 degrees and ends with the cadence of its index: degree 5
\* for an even index (0-based), degrees 5 then 1 for an odd index.
C6_PhrasesEndWithCadence ==
    \A k \in DOMAIN progression :
        LET ph == progression[k] IN
        /\ Len(ph) >= 4
        /\ (k - 1) % 2 = 0 => ph[Len(ph)] = 5
        /\ (k - 1) % 2 = 1 => (ph[Len(ph) - 1] = 5 /\ ph[Len(ph)] = 1)

\* C6's case: a call has returned a phrase of each parity
C6_Witness ==
    /\ pc = "done"
    /\ Len(progression) = 2
    /\ progression[1][Len(progression[1])] = 5
    /\ progression[2][Len(progression[2])] = 1

\* C7: for pitches lo and hi with lo.midi < hi.midi, hi - lo is ascending,
\* lo - hi is descending, and the two have the same generic and transposition.
C7_DirectionFollowsMidi ==
    (call.op = "sub_pitch" /\ midi(call.q) < midi(call.p)) =>
        LET up == ret.interval
            down == PitchSubPitch(call.q, call.p)
        IN  /\ ~up.descending
            /\ down.descending
            /\ up.generic = down.generic
            /\ up.transposition = down.transposition

\* C7's case: the higher pitch is spelled on the lower letter (b#0 above cb1)
C7_Witness ==
    /\ call.op = "sub_pitch"
    /\ midi(call.q) < midi(call.p)
    /\ call.p.base_pitch_id < call.q.base_pitch_id
    /\ ~ret.interval.descending

\* the names direction + quality + generic number (+ trailing text)
NameWithQuality(name, quality, g) ==
    \E d \in {<<>>, <<"+">>, <<"-">>}, x \in {<<>>, <<"x">>} :
        name = d \o <<quality>> \o StrOfNat(g) \o x

\* C8: parsing an interval name raises, and yields no interval, when its
\* quality is P and its generic size is imperfect, or its quality is M or m
\* and its generic size is perfect.
C8_QualityOfWrongClassRaises ==
    call.op = "parse_interval_name" =>
        \A g \in 1..MaxGenericName :
            /\ (NameWithQuality(call.name, "P", g) /\ ((g - 1) % 7) \notin {0, 3, 4})
                  => ret.raised
            /\ ((NameWithQuality(call.name, "M", g) \/ NameWithQuality(call.name, "m", g))
                  /\ ((g - 1) % 7) \in {0, 3, 4})
                  => ret.raised

\* C8's case: "M5", a major fifth, is refused
C8_Witness ==
    /\ call.op = "parse_interval_name"
    /\ call.name = <<"M", "5">>
    /\ ret.raised

\* C9: the interval built from an ordered pair of pitches has generic >= 0.
C9_GenericNonNegative ==
    call.op = "sub_pitch" => ret.interval.generic >= 0

\* the phrases of the call so far: those appended and the one being built
PhrasesSoFar ==
    IF Len(phrase) > 0 /\ pc = "while" THEN Append(progression, phrase) ELSE progression

\* C10, as stated: the first element of every phrase is one of the successors
\* of degree 1 (3, 6, 2, 4, 5 or 7).
C10_FirstIsSuccessorOfDegreeOne ==
    \A k \in DOMAIN PhrasesSoFar : PhrasesSoFar[k][1] \in {3, 6, 2, 4, 5, 7}

\* C10, amended: the first element of every phrase is one of the entries the
\* transition table lists under key 0 (1 or 5).
C10_FirstIsStartEntry ==
    \A k \in DOMAIN PhrasesSoFar : PhrasesSoFar[k][1] \in {1, 5}

\* C10's case: a call has returned phrases, one beginning with 1 and one with 5
C10_Witness ==
    /\ pc = "done"
    /\ Len(progression) = 2
    /\ progression[1][1] = 1
    /\ progression[2][1] = 5

\* C13: for every pitch p with transposition <= 0 and every ascending
\* interval i built from a name, (p + i) - i is p again: the same
\* base_pitch_id and the same transposition.
C13_SubtractUndoesAdd ==
    (call.op = "add" /\ call.p.transposition <= 0 /\ ~call.i.descending) =>
        LET back == PitchSubInterval(ret.pitch, call.i)
        IN  /\ ~back.raised
            /\ back.val.base_pitch_id = call.p.base_pitch_id
            /\ back.val.transposition = call.p.transposition

\* b may follow a: b is one of the degrees of transitions[a], tied pairs
\* flattened
Permitted(a, b) == b \in choose(transitions[a])

\* C14: every adjacent pair of degrees of every phrase, the degrees appended
\* by the cadence included, is a transition the table permits, and every
\* degree of a phrase is in 1..7.
C14_AdjacentPairsPermitted ==
    \A k \in DOMAIN PhrasesSoFar :
        LET ph == PhrasesSoFar[k] IN
        /\ \A j \in DOMAIN ph : ph[j] \in 1..7
        /\ \A j \in 1..(Len(ph) - 1) : Permitted(ph[j], ph[j + 1])

\* C14's case: a call has returned a half cadence and an authentic cadence
\* taken after degree 7
C14_Witness ==
    /\ pc = "done"
    /\ Len(progression) = 2
    /\ LET ph == progression[2] IN
       /\ ph[Len(ph) - 2] = 7
       /\ ph[Len(ph) - 1] = 5
       /\ ph[Len(ph)] = 1

\* the cadence condition of the phrase with index idx
CadenceChords(idx) == IF idx % 2 = 0 THEN HalfCadenceChords ELSE AuthenticCadenceChords

\* C11, as stated: once a step of a phrase has found the length above the
\* threshold, the phrase stops at the first later resolved degree that
\* satisfies its cadence condition: it never goes on after such a degree.
C11_StopsAtFirstCadenceAfterThreshold ==
    ~(pc = "while" /\ walk.earlier /\ walk.last \in CadenceChords(n))

\* C11, amended: the threshold is drawn again at every step, and a step stops
\* the phrase exactly when its own draw is below the length and its degree
\* satisfies the cadence condition, whatever earlier steps found.
C11_StopDecidedByOwnDraw ==
    /\ (pc = "while" /\ walk.len >= 2 /\ walk.last \in CadenceChords(n)) => ~walk.over
    /\ pc = "append" => walk.over

\* C11's case: in the second phrase a step found the length above its draw,
\* and a later step resolved a cadence degree under a higher draw
C11_Witness ==
    /\ pc = "while"
    /\ n = 1
    /\ walk.earlier
    /\ ~walk.over
    /\ walk.last \in CadenceChords(n)

\* C12: under strong fairness of the chords and of the draws the call
\* finishes every phrase and returns exactly `phrases` phrases.
C12_ReturnsAllPhrases == <>(pc = "done" /\ walk.count = phrases)

\* C12's case: the call has returned two phrases
C12_Witness ==
    /\ pc = "done"
    /\ phrases = 2
    /\ walk.count = 2

====
